---------------------------- MODULE Spec2Model ----------------------------
(***************************************************************************)
(* Model of script.py: a scraper that fans listing-page URLs out to a      *)
(* thread pool, fetches each page through a pooled WebDriver with retry,   *)
(* classifies the article links against a keyword dictionary and           *)
(* aggregates the matches in the module-level dictionary stats.            *)
(*                                                                         *)
(* Text is modelled as a sequence of one-character strings so that         *)
(* lower(), startswith() and the \b...\b regular expression are computed   *)
(* character by character.  Threads interleave between any two accesses    *)
(* to shared objects (the code takes no lock), so every action below       *)
(* performs at most one access to a shared object.                         *)
(***************************************************************************)
EXTENDS Integers, Sequences, FiniteSets, TLC

(***************************************************************************)
(* Text: str.lower, the regex classes \w and \b, re.search                 *)
(***************************************************************************)
UpperAlpha ==
    <<"A","B","C","D","E","F","G","H","I","J","K","L","M",
      "N","O","P","Q","R","S","T","U","V","W","X","Y","Z">>

LowerAlpha ==
    <<"a","b","c","d","e","f","g","h","i","j","k","l","m",
      "n","o","p","q","r","s","t","u","v","w","x","y","z">>

Digits ==
    {"0","1","2","3","4","5","6","7","8","9"}

Range(s) ==
    {s[k] : k \in DOMAIN s}

LowerChar(c) ==
    IF c \in Range(UpperAlpha)
    THEN LowerAlpha[CHOOSE k \in DOMAIN UpperAlpha : UpperAlpha[k] = c]
    ELSE c

Lower(text) ==
    [k \in DOMAIN text |-> LowerChar(text[k])]

IsWordChar(c) ==
    c \in Range(UpperAlpha) \cup Range(LowerAlpha) \cup Digits \cup {"_"}

\* Is there a word character at position p of text (FALSE beyond the edges)?
WordAt(text, p) ==
    p >= 1 /\ p <= Len(text) /\ IsWordChar(text[p])

\* The regex assertion \b between positions p and p+1 of text.
WordBoundary(text, p) ==
    WordAt(text, p) # WordAt(text, p + 1)

\* term occurs in text starting at position p, as \bterm\b.
TermAt(text, term, p) ==
    /\ p + Len(term) - 1 <= Len(text)
    /\ \A k \in 1..Len(term) : text[p + k - 1] = term[k]
    /\ WordBoundary(text, p - 1)
    /\ WordBoundary(text, p + Len(term) - 1)

\* re.search(r"\b(?:t1|t2|...)\b", text)
ReSearch(terms, text) ==
    \E j \in DOMAIN terms : \E p \in 1..Len(text) : TermAt(text, Lower(terms[j]), p)

keywords ==
    <<
       [disaster |-> "flood", terms |-> <<
            <<"f","l","o","o","d">>,
            <<"i","n","u","n","d","a","t","i","o","n">>,
            <<"w","a","t","e","r","l","o","g","g","i","n","g">>,
            <<"d","e","l","u","g","e">>>>],
       [disaster |-> "fire", terms |-> <<
            <<"f","i","r","e">>,
            <<"b","l","a","z","e">>,
            <<"i","n","f","e","r","n","o">>,
            <<"b","u","r","n">>,
            <<"f","l","a","m","e","s">>>>],
       [disaster |-> "earthquake", terms |-> <<
            <<"e","a","r","t","h","q","u","a","k","e">>,
            <<"t","r","e","m","o","r">>,
            <<"s","e","i","s","m","i","c">>>>],
       [disaster |-> "cyclone", terms |-> <<
            <<"c","y","c","l","o","n","e">>,
            <<"s","t","o","r","m">>,
            <<"h","u","r","r","i","c","a","n","e">>,
            <<"t","y","p","h","o","o","n">>>>]
    >>

Categories ==
    {keywords[j].disaster : j \in DOMAIN keywords}

\* The disasters whose pattern is found in text, in dictionary order.
contains_keywords(text, keywords_dict) ==
    LET hits == SelectSeq(keywords_dict, LAMBDA e : ReSearch(e.terms, Lower(text)))
    IN  [j \in DOMAIN hits |-> hits[j].disaster]

StartsWith(text, prefix) ==
    /\ Len(prefix) <= Len(text)
    /\ \A k \in DOMAIN prefix : text[k] = prefix[k]

(***************************************************************************)
(* The site: listing pages and their article containers                    *)
(***************************************************************************)
Origin ==
    <<"h","t","t","p","s",":","/","/","w","w","w",".","a","n","a","n","d","a","b","a","z","a","r",".","c","o","m">>

Http ==
    <<"h","t","t","p">>

HrefFlood ==
    <<"/","f","l","o","o","d","-","n","e","w","s","-","1">>

TitleFlood ==
    <<"F","l","o","o","d"," ","w","a","r","n","i","n","g"," ","i","s","s","u","e","d">>

HrefQuake ==
    <<"/","e","a","r","t","h","q","u","a","k","e","-","n","e","w","s","-","2">>

TitleQuake ==
    <<"T","r","e","m","o","r"," ","f","e","l","t"," ","i","n"," ","r","e","g","i","o","n">>

HrefFire ==
    <<"/","f","i","r","e","-","r","e","p","o","r","t">>

TitleCyclone ==
    <<"C","y","c","l","o","n","e"," ","a","l","e","r","t">>

HrefPlain ==
    <<"/","n","e","w","s","-","3">>

TitleStorm ==
    <<"S","t","o","r","m"," ","a","n","d"," ","d","e","l","u","g","e">>

HrefFighter ==
    <<"/","f","i","r","e","f","i","g","h","t","e","r","_","f","i","r","e","1">>

TitleCamp ==
    <<"c","a","m","p","f","i","r","e"," ","s","t","o","r","i","e","s">>

HrefRelief ==
    <<"/","f","l","o","o","d","-","r","e","l","i","e","f","-","2">>

TitleRelief ==
    <<"R","i","v","e","r"," ","b","a","n","k"," ","b","r","e","a","c","h">>

\* A container div.imgntextbox: anchor says whether it holds an <a> element,
\* href is the anchor's href attribute (<<>> when missing or empty), title its
\* stripped text.
Container(anchor, href, title) ==
    [anchor |-> anchor, href |-> href, title |-> title]

CFlood    == Container(TRUE, HrefFlood, TitleFlood)
CFloodAbs == Container(TRUE, Origin \o HrefFlood, TitleFlood)
CQuake    == Container(TRUE, HrefQuake, TitleQuake)
CMixed    == Container(TRUE, HrefFire, TitleCyclone)
CStorm    == Container(TRUE, HrefPlain, TitleStorm)
CNone     == Container(TRUE, HrefFighter, TitleCamp)
CNoHref   == Container(TRUE, <<>>, TitleFlood)
CNoAnchor == Container(FALSE, <<>>, <<>>)
CRelief   == Container(TRUE, HrefRelief, TitleRelief)

(***************************************************************************)
(* Configuration: sections, page URLs                                      *)
(***************************************************************************)
states ==
    <<"bardhaman", "north-bengal", "midnapore", "howrah-hooghly",
      "purulia-birbhum-bankura", "24-parganas", "nadia-murshidabad">>

\* How many entries of states a run of the model scrapes after "main".
NumStates == 1

MainPages == 3

StatePages == 2

max_workers == 3

max_retries == 3

\* A page URL is the f-string of generate_urls, kept as its literal and
\* substituted parts.
generate_urls(section, pages) ==
    IF section = "main"
    THEN [i \in 1..pages |-> <<"https://www.anandabazar.com/west-bengal/page-", i>>]
    ELSE [i \in 1..pages |->
             <<"https://www.anandabazar.com/west-bengal/", section, "/page-", i>>]

\* The batches main() hands to scrape_section, one after the other.
MainPlan ==
    <<generate_urls("main", MainPages)>> \o
    [j \in 1..NumStates |-> generate_urls(states[j], StatePages)]

\* Batches in which scrape_page is called more than once for one URL: twice
\* by concurrent workers of one batch, and again in a later batch.
RepeatPlan ==
    LET u == generate_urls("main", MainPages)
    IN  << <<u[3], u[3]>>, <<u[3], u[1]>> >>

\* One batch of three calls, as many as the executor has workers.
PoolPlan ==
    <<generate_urls("main", MainPages)>>

\* One batch of two calls for the first two pages of main.
CleanPlan ==
    LET u == generate_urls("main", MainPages)
    IN  << <<u[1], u[2]>> >>

PageURLs ==
    UNION {Range(MainPlan[b]) : b \in DOMAIN MainPlan}

\* What the site serves for each listing page.
Site ==
    [u \in PageURLs |->
        IF Len(u) = 2
        THEN CASE u[2] = 1 -> <<CFlood>>
               [] u[2] = 2 -> <<CFloodAbs>>
               [] OTHER    -> <<CNoAnchor, CMixed>>
        ELSE IF u[4] = 1
             THEN IF u[2] = states[1] THEN <<CNoHref, CStorm>> ELSE <<CQuake>>
             ELSE <<CNone>>]

\* A site whose first two main pages hold one record each, with distinct
\* destinations of one category.
CleanSite ==
    [u \in PageURLs |->
        IF Len(u) = 2 /\ u[2] = 2 THEN <<CRelief>> ELSE Site[u]]

Sites ==
    {Site, CleanSite}

\* The pool, the batches and the site of a run: the script's own (a pool of
\* 3, the sections of main), a pool of 2 under one batch of three concurrent
\* calls, batches that repeat a URL, and two pages with distinct records.
Configs ==
    {<<3, MainPlan, Site>>, <<2, PoolPlan, Site>>, <<3, RepeatPlan, Site>>,
     <<2, RepeatPlan, Site>>, <<1, RepeatPlan, Site>>, <<3, CleanPlan, CleanSite>>}

\* The pages on whose fetch the render engine may raise.
Unreliable ==
    {u \in PageURLs : Len(u) = 2 /\ u[2] = MainPages}

(***************************************************************************)
(* Classification of one container (scrape_page, lines 263-290)            *)
(***************************************************************************)
\* The container is skipped by one of the two `continue` statements.
Malformed(container) ==
    ~container.anchor \/ container.href = <<>>

article_link(container) ==
    IF StartsWith(container.href, Http)
    THEN container.href
    ELSE Origin \o container.href

\* Python's `a or b` on lists: a when a is non-empty, b otherwise.
PyOr(a, b) ==
    IF a # <<>> THEN a ELSE b

matched_disasters(container) ==
    IF Malformed(container)
    THEN <<>>
    ELSE PyOr(contains_keywords(Lower(article_link(container)), keywords),
              contains_keywords(Lower(container.title), keywords))

AllContainers ==
    UNION {Range(s[u]) : s \in Sites, u \in PageURLs}

\* matched_disasters is a pure function of the container; tabulated once.
MatchTable ==
    [container \in AllContainers |-> matched_disasters(container)]

\* Index of the first container at or after position c whose matched list is
\* non-empty; 0 when the for loop over containers runs out.
NextHit(page, c) ==
    LET hits == {k \in c..Len(page) : MatchTable[page[k]] # <<>>}
    IN  IF hits = {} THEN 0 ELSE CHOOSE k \in hits : \A h \in hits : k <= h

(***************************************************************************)
(* State                                                                   *)
(***************************************************************************)
VARIABLES
    max_drivers,     \* WebDriverPool.max_drivers
    plan,            \* the batches of page URLs, in the order main() runs them
    site,            \* the listing page the site serves for each URL
    drivers,         \* WebDriverPool.drivers: list of driver handles (1, 2, ...)
    in_use,          \* WebDriverPool.in_use: dict from handle to flag
    loaded,          \* per handle, the URL whose page the browser shows
    processed_urls,  \* the module-level set processed_urls
    stats,           \* the module-level dict stats
    task,            \* per scrape_page call: program position and locals
    sec,             \* index of the batch whose executor block main() is in
    mainpc,          \* position of main(): "scraping", "report", "quit", "exit"
    report,          \* total_articles and unique_articles computed by main()
    mainerr,         \* what raised into main()'s finally clause, "none" if nothing
    quits,           \* history: the driver.quit() calls of quit_all, in order
    stray            \* history: handles passed to release_driver by a caller
                     \* other than scrape_page

vars ==
    <<max_drivers, plan, site, drivers, in_use, loaded, processed_urls, stats,
      task, sec, mainpc, report, mainerr, quits, stray>>

NoDriver == 0

NoPage == <<>>

\* One scrape_page call per position of each batch: <<batch, position>>.
TaskIds ==
    {t \in (DOMAIN plan) \X (1..MainPages) : t[2] <= Len(plan[t[1]])}

url(t) ==
    plan[t[1]][t[2]]

\* Locals of a scrape_page call that has not started or has finished.
\* A finished call keeps outcome and src (the page its soup was parsed from).
\* tries, slept, got, err, full and rel are history: driver.get calls made,
\* seconds spent in time.sleep(wait_time), whether get_driver returned, which call raised into the outer except, whether the
\* pool was exhausted when get_driver was called, and the handles released
\* since that call.
Fresh ==
    [pc |-> "queued", i |-> 0, waiting |-> FALSE, d |-> NoDriver, attempt |-> 0,
     wait_time |-> 0, src |-> NoPage, c |-> 0, m |-> 0, tmp |-> 0,
     outcome |-> "none", err |-> "none", tries |-> 0, slept |-> 0, got |-> FALSE,
     full |-> FALSE, rel |-> {}]

Init ==
    /\ \E config \in Configs :
          max_drivers = config[1] /\ plan = config[2] /\ site = config[3]
    /\ drivers = <<>>
    /\ in_use = <<>>
    /\ loaded = <<>>
    /\ processed_urls = {}
    /\ stats = [disaster \in Categories |-> [count |-> 0, articles |-> <<>>]]
    /\ task = [t \in TaskIds |-> Fresh]
    /\ sec = 1
    /\ mainpc = "scraping"
    /\ report = [total |-> 0, unique |-> 0]
    /\ mainerr = "none"
    /\ quits = <<>>
    /\ stray = <<>>

(***************************************************************************)
(* WebDriverPool                                                           *)
(***************************************************************************)
\* self.in_use.get(driver, False)
InUseGet(driver) ==
    driver \in DOMAIN in_use /\ in_use[driver]

\* self.in_use[driver] = value
InUseSet(driver, value) ==
    [x \in DOMAIN in_use \cup {driver} |-> IF x = driver THEN value ELSE in_use[x]]

\* The pool holds max_drivers handles or more and every one is flagged in use.
Exhausted ==
    /\ Len(drivers) >= max_drivers
    /\ \A j \in DOMAIN drivers : InUseGet(drivers[j])

\* Mutation of HasRoom: the comparison is off by one.
HasRoomOffByOne ==
    Len(drivers) <= max_drivers

\* len(self.drivers) < self.max_drivers
HasRoom ==
    Len(drivers) < max_drivers

\* Mutation of release_driver: no test that the pool owns the handle.
release_unchecked(driver) ==
    InUseSet(driver, FALSE)

\* if driver in self.drivers: self.in_use[driver] = False
release_driver(driver) ==
    IF driver \in Range(drivers) THEN InUseSet(driver, FALSE) ELSE in_use

Running(b) ==
    {t \in TaskIds : t[1] = b /\ task[t].pc \notin {"queued", "done"}}

Set(t, rec) ==
    task' = [task EXCEPT ![t] = rec]

Pool == <<drivers, in_use, loaded>>

Config == <<max_drivers, plan, site>>

Main == <<sec, mainpc, report, mainerr, quits, stray>>

(***************************************************************************)
(* scrape_section: ThreadPoolExecutor(max_workers=3).map(scrape_page, urls) *)
(***************************************************************************)
\* A free worker thread takes the next URL of the batch off the work queue.
Dispatch(t) ==
    /\ mainpc = "scraping"
    /\ t[1] = sec
    /\ task[t].pc = "queued"
    /\ \A k \in 1..(t[2] - 1) : task[<<sec, k>>].pc # "queued"
    /\ Cardinality(Running(sec)) < max_workers
    /\ Set(t, [task[t] EXCEPT !.pc = "check"])
    /\ UNCHANGED <<Config, Pool, processed_urls, stats, Main>>

(***************************************************************************)
(* scrape_page                                                             *)
(***************************************************************************)
\* The render engine may raise while serving this call (webdriver.Chrome,
\* driver.get, WebDriverWait.until, driver.page_source).
MayFail(t) ==
    url(t) \in Unreliable

\* if url in processed_urls: return
CheckSeen(t) ==
    /\ task[t].pc = "check"
    /\ IF url(t) \in processed_urls
       THEN Set(t, [Fresh EXCEPT !.pc = "done", !.outcome = "skipped"])
       ELSE Set(t, [task[t] EXCEPT !.pc = "add"])
    /\ UNCHANGED <<Config, Pool, processed_urls, stats, Main>>

\* processed_urls.add(url); driver = None; the call of get_driver begins.
AddSeen(t) ==
    /\ task[t].pc = "add"
    /\ processed_urls' = processed_urls \cup {url(t)}
    /\ Set(t, [task[t] EXCEPT !.pc = "scan", !.i = 1, !.full = Exhausted])
    /\ UNCHANGED <<Config, Pool, stats, Main>>

\* One iteration of `for driver in self.drivers`, in the first pass of
\* get_driver or in its `while True` loop; at the end of the list the first
\* pass goes on to the capacity test, a later pass sleeps and starts over.
ScanDrivers(t) ==
    /\ task[t].pc = "scan"
    /\ IF task[t].i <= Len(drivers)
       THEN IF InUseGet(drivers[task[t].i])
            THEN Set(t, [task[t] EXCEPT !.i = @ + 1])
            ELSE Set(t, [task[t] EXCEPT !.pc = "mark", !.d = drivers[task[t].i]])
       ELSE IF task[t].waiting
            THEN Set(t, [task[t] EXCEPT !.i = 1])
            ELSE Set(t, [task[t] EXCEPT !.pc = "room"])
    /\ UNCHANGED <<Config, Pool, processed_urls, stats, Main>>

\* if len(self.drivers) < self.max_drivers
CheckRoom(t) ==
    /\ task[t].pc = "room"
    /\ IF HasRoom
       THEN Set(t, [task[t] EXCEPT !.pc = "create"])
       ELSE Set(t, [task[t] EXCEPT !.pc = "scan", !.i = 1, !.waiting = TRUE])
    /\ UNCHANGED <<Config, Pool, processed_urls, stats, Main>>

\* driver = webdriver.Chrome(options=options); self.drivers.append(driver)
CreateDriver(t) ==
    /\ task[t].pc = "create"
    /\ LET driver == Len(drivers) + 1
       IN  /\ drivers' = Append(drivers, driver)
           /\ loaded' = [x \in DOMAIN loaded \cup {driver} |->
                            IF x = driver THEN NoPage ELSE loaded[x]]
           /\ Set(t, [task[t] EXCEPT !.pc = "mark", !.d = driver])
    /\ UNCHANGED <<Config, in_use, processed_urls, stats, Main>>

\* Mutation of CreateFails: the failure comes after the handle has been
\* registered and flagged.
CreateFailsRegistered(t) ==
    /\ task[t].pc = "create"
    /\ MayFail(t)
    /\ LET driver == Len(drivers) + 1
       IN  /\ drivers' = Append(drivers, driver)
           /\ in_use' = InUseSet(driver, TRUE)
           /\ loaded' = [x \in DOMAIN loaded \cup {driver} |->
                            IF x = driver THEN NoPage ELSE loaded[x]]
    /\ Set(t, [task[t] EXCEPT !.pc = "finally", !.outcome = "abandoned",
                              !.err = "create"])
    /\ UNCHANGED <<Config, processed_urls, stats, Main>>

\* webdriver.Chrome raises: get_driver raises into scrape_page's outer
\* except with driver still None.
CreateFails(t) ==
    /\ task[t].pc = "create"
    /\ MayFail(t)
    /\ Set(t, [task[t] EXCEPT !.pc = "finally", !.outcome = "abandoned",
                              !.err = "create"])
    /\ UNCHANGED <<Config, Pool, processed_urls, stats, Main>>

\* self.in_use[driver] = True; return driver
MarkInUse(t) ==
    /\ task[t].pc = "mark"
    /\ in_use' = InUseSet(task[t].d, TRUE)
    /\ Set(t, [task[t] EXCEPT !.pc = "get", !.got = TRUE, !.attempt = 0,
                              !.i = 0, !.waiting = FALSE])
    /\ UNCHANGED <<Config, drivers, loaded, processed_urls, stats, Main>>

\* driver.get(url) and the wait for div.imgntextbox both succeed: break.
Navigate(t) ==
    /\ task[t].pc = "get"
    /\ site[url(t)] # <<>>
    /\ loaded' = [loaded EXCEPT ![task[t].d] = url(t)]
    /\ Set(t, [task[t] EXCEPT !.pc = "source", !.tries = @ + 1])
    /\ UNCHANGED <<Config, drivers, in_use, processed_urls, stats, Main>>

\* Mutation of Failed: the retry loop has no last attempt, it starts over
\* (the counts of navigations and of seconds slept saturate).
FailedRetryForever(rec) ==
    IF rec.attempt < max_retries - 1
    THEN [rec EXCEPT !.attempt = @ + 1, !.wait_time = 2 ^ rec.attempt,
                     !.slept = IF rec.tries < max_retries THEN @ + 2 ^ rec.attempt ELSE @,
                     !.tries = IF @ < max_retries THEN @ + 1 ELSE @]
    ELSE [rec EXCEPT !.attempt = 0, !.wait_time = 2 ^ rec.attempt]

\* Mutation of Failed: the last failure is not re-raised, the call goes on to
\* the extraction.
FailedNotRaised(rec) ==
    IF rec.attempt < max_retries - 1
    THEN [rec EXCEPT !.attempt = @ + 1, !.wait_time = 2 ^ rec.attempt,
                     !.slept = @ + 2 ^ rec.attempt, !.tries = @ + 1]
    ELSE [rec EXCEPT !.pc = "source", !.err = "fetch", !.tries = @ + 1]

\* Mutation of Failed: the sleep comes before the test for a last attempt.
FailedSleepsFirst(rec) ==
    IF rec.attempt < max_retries - 1
    THEN [rec EXCEPT !.attempt = @ + 1, !.wait_time = 2 ^ rec.attempt,
                     !.slept = @ + 2 ^ rec.attempt, !.tries = @ + 1]
    ELSE [rec EXCEPT !.pc = "finally", !.outcome = "abandoned", !.err = "fetch",
                     !.wait_time = 2 ^ rec.attempt, !.slept = @ + 2 ^ rec.attempt,
                     !.tries = @ + 1]

\* Mutation of Failed: one attempt more than max_retries.
FailedOffByOne(rec) ==
    IF rec.attempt < max_retries
    THEN [rec EXCEPT !.attempt = @ + 1, !.wait_time = 2 ^ rec.attempt,
                     !.slept = @ + 2 ^ rec.attempt, !.tries = @ + 1]
    ELSE [rec EXCEPT !.pc = "finally", !.outcome = "abandoned", !.err = "fetch",
                     !.tries = @ + 1]

\* The except clause of the retry loop: sleep 2**attempt and go round again
\* if attempts remain, else re-raise into the outer except.
Failed(rec) ==
    IF rec.attempt < max_retries - 1
    THEN [rec EXCEPT !.attempt = @ + 1, !.wait_time = 2 ^ rec.attempt,
                     !.slept = @ + 2 ^ rec.attempt, !.tries = @ + 1]
    ELSE [rec EXCEPT !.pc = "finally", !.outcome = "abandoned", !.err = "fetch",
                     !.tries = @ + 1]

\* driver.get(url) raises, or WebDriverWait times out: the browser shows
\* no div.imgntextbox.
AttemptFails(t) ==
    /\ task[t].pc = "get"
    /\ MayFail(t)
    /\ loaded' = [loaded EXCEPT ![task[t].d] = NoPage]
    /\ Set(t, Failed(task[t]))
    /\ UNCHANGED <<Config, drivers, in_use, processed_urls, stats, Main>>

\* driver.page_source of a browser showing the page of URL src.
page_source(src) ==
    IF src = NoPage THEN <<>> ELSE site[src]

\* Where the loops over containers and matched_disasters stand after the
\* matched list at position m of container c has been dealt with.
Advance(rec) ==
    LET page == page_source(rec.src)
        next == NextHit(page, rec.c + 1)
    IN  IF rec.c > 0 /\ rec.m < Len(MatchTable[page[rec.c]])
        THEN [rec EXCEPT !.pc = "member", !.m = @ + 1]
        ELSE IF next # 0
             THEN [rec EXCEPT !.pc = "member", !.c = next, !.m = 1]
             ELSE [rec EXCEPT !.pc = "finally", !.outcome = "success",
                              !.c = 0, !.m = 0]

\* soup = BeautifulSoup(driver.page_source); containers = soup.find_all(...)
\* and the loop up to the first container with a non-empty matched list.
ReadSource(t) ==
    /\ task[t].pc = "source"
    /\ Set(t, Advance([task[t] EXCEPT !.src = loaded[task[t].d]]))
    /\ UNCHANGED <<Config, Pool, processed_urls, stats, Main>>

\* driver.page_source raises: the outer except.
ReadSourceFails(t) ==
    /\ task[t].pc = "source"
    /\ MayFail(t)
    /\ Set(t, [task[t] EXCEPT !.pc = "finally", !.outcome = "abandoned",
                              !.err = "source"])
    /\ UNCHANGED <<Config, Pool, processed_urls, stats, Main>>

disaster(rec) ==
    MatchTable[page_source(rec.src)[rec.c]][rec.m]

link(rec) ==
    article_link(page_source(rec.src)[rec.c])

\* Mutation of CheckMember: the record is recorded without the membership
\* test.
CheckMemberAlwaysRecords(t) ==
    /\ task[t].pc = "member"
    /\ Set(t, [task[t] EXCEPT !.pc = "load"])
    /\ UNCHANGED <<Config, Pool, processed_urls, stats, Main>>

\* if article_link not in stats[disaster]["articles"]
CheckMember(t) ==
    /\ task[t].pc = "member"
    /\ IF link(task[t]) \in Range(stats[disaster(task[t])].articles)
       THEN Set(t, Advance(task[t]))
       ELSE Set(t, [task[t] EXCEPT !.pc = "load"])
    /\ UNCHANGED <<Config, Pool, processed_urls, stats, Main>>

\* stats[disaster]["count"] += 1, the read
LoadCount(t) ==
    /\ task[t].pc = "load"
    /\ Set(t, [task[t] EXCEPT !.pc = "store", !.tmp = stats[disaster(task[t])].count])
    /\ UNCHANGED <<Config, Pool, processed_urls, stats, Main>>

\* stats[disaster]["count"] += 1, the write
StoreCount(t) ==
    /\ task[t].pc = "store"
    /\ stats' = [stats EXCEPT ![disaster(task[t])].count = task[t].tmp + 1]
    /\ Set(t, [task[t] EXCEPT !.pc = "append", !.tmp = 0])
    /\ UNCHANGED <<Config, Pool, processed_urls, Main>>

\* stats[disaster]["articles"].append(article_link)
AppendArticle(t) ==
    /\ task[t].pc = "append"
    /\ stats' = [stats EXCEPT ![disaster(task[t])].articles = Append(@, link(task[t]))]
    /\ Set(t, Advance(task[t]))
    /\ UNCHANGED <<Config, Pool, processed_urls, Main>>

\* A release_driver(driver) that clears the flag of handle d is seen by every
\* get_driver call in progress.
Released(d) ==
    [u \in TaskIds |->
        IF task[u].full /\ task[u].pc \in {"scan", "room", "create", "mark"}
        THEN [task[u] EXCEPT !.rel = @ \cup {d}]
        ELSE task[u]]

\* Mutation of Finally: the release sits at the end of the try block rather
\* than in a finally clause, so only a successful call releases.
FinallyOnSuccessOnly(t) ==
    /\ task[t].pc = "finally"
    /\ LET d == task[t].d
           done == [Fresh EXCEPT !.pc = "done", !.outcome = task[t].outcome,
                                 !.err = task[t].err, !.got = task[t].got,
                                 !.src = task[t].src]
       IN  IF d # NoDriver /\ task[t].outcome = "success"
           THEN /\ in_use' = release_driver(d)
                /\ task' = [Released(d) EXCEPT ![t] = done]
           ELSE /\ in_use' = in_use
                /\ Set(t, done)
    /\ UNCHANGED <<Config, drivers, loaded, processed_urls, stats, Main>>

\* Mutation of Finally: the URL of an abandoned call is taken out of
\* processed_urls, so that it can be tried again.
FinallyForgetsAbandoned(t) ==
    /\ task[t].pc = "finally"
    /\ LET d == task[t].d
           done == [Fresh EXCEPT !.pc = "done", !.outcome = task[t].outcome,
                                 !.err = task[t].err, !.got = task[t].got,
                                 !.src = task[t].src]
       IN  IF d # NoDriver
           THEN /\ in_use' = release_driver(d)
                /\ task' = [Released(d) EXCEPT ![t] = done]
           ELSE /\ in_use' = in_use
                /\ Set(t, done)
    /\ processed_urls' = IF task[t].outcome = "abandoned"
                         THEN processed_urls \ {url(t)}
                         ELSE processed_urls
    /\ UNCHANGED <<Config, drivers, loaded, stats, Main>>

\* finally: if driver: driver_pool.release_driver(driver)
Finally(t) ==
    /\ task[t].pc = "finally"
    /\ LET d == task[t].d
           done == [Fresh EXCEPT !.pc = "done", !.outcome = task[t].outcome,
                                 !.err = task[t].err, !.got = task[t].got,
                                 !.src = task[t].src]
       IN  IF d # NoDriver
           THEN /\ in_use' = release_driver(d)
                /\ task' = [Released(d) EXCEPT ![t] = done]
           ELSE /\ in_use' = in_use
                /\ Set(t, done)
    /\ UNCHANGED <<Config, drivers, loaded, processed_urls, stats, Main>>

\* Any step of the scrape_page call t.
scrape_page(t) ==
    \/ CheckSeen(t) \/ AddSeen(t) \/ ScanDrivers(t) \/ CheckRoom(t)
    \/ CreateDriver(t) \/ CreateFails(t) \/ MarkInUse(t) \/ Navigate(t)
    \/ AttemptFails(t) \/ ReadSource(t) \/ ReadSourceFails(t) \/ CheckMember(t)
    \/ LoadCount(t) \/ StoreCount(t) \/ AppendArticle(t) \/ Finally(t)

(***************************************************************************)
(* main                                                                    *)
(***************************************************************************)
\* Mutation of BatchDone: executor.shutdown(wait=False), the block ends once
\* every URL has been handed to a worker.
BatchHandedOut(b) ==
    \A t \in TaskIds : t[1] = b => task[t].pc # "queued"

\* Every call of the batch has returned.
BatchDone(b) ==
    \A t \in TaskIds : t[1] = b => task[t].pc = "done"

\* The with block of scrape_section ends (executor.shutdown(wait=True));
\* main goes on to the next section, or to the summary.
SectionReturns ==
    /\ mainpc = "scraping"
    /\ BatchDone(sec)
    /\ IF sec < Len(plan)
       THEN sec' = sec + 1 /\ mainpc' = mainpc
       ELSE sec' = sec /\ mainpc' = "report"
    /\ UNCHANGED <<Config, Pool, processed_urls, stats, task, report, mainerr, quits, stray>>

\* scrape_section raises in main's thread before any URL of the batch is
\* handed to a worker (the executor cannot be set up, say): control goes to
\* the finally clause of main and the batch is never scraped.
SectionRaises ==
    /\ mainpc = "scraping"
    /\ \A t \in TaskIds : t[1] = sec => task[t].pc = "queued"
    /\ mainpc' = "quit"
    /\ mainerr' = "scraping"
    /\ UNCHANGED <<Config, Pool, processed_urls, stats, task, sec, report, quits, stray>>

RECURSIVE SumCounts(_, _)
SumCounts(st, cats) ==
    IF cats = {} THEN 0
    ELSE LET x == CHOOSE x \in cats : TRUE
         IN  st[x].count + SumCounts(st, cats \ {x})

\* total_articles and unique_articles
Totals ==
    [total  |-> SumCounts(stats, Categories),
     unique |-> Cardinality(UNION {Range(stats[x].articles) : x \in Categories})]

\* The summary is computed and printed and the JSON file is written.
Report ==
    /\ mainpc = "report"
    /\ report' = Totals
    /\ mainpc' = "quit"
    /\ UNCHANGED <<Config, Pool, processed_urls, stats, task, sec, mainerr, quits, stray>>

\* The summary is computed and printed; open() or json.dump raises.
ReportFails ==
    /\ mainpc = "report"
    /\ report' = Totals
    /\ mainpc' = "quit"
    /\ mainerr' = "report"
    /\ UNCHANGED <<Config, Pool, processed_urls, stats, task, sec, quits, stray>>

\* The handle the loop of quit_all has come to.
NextQuit ==
    drivers[Len(quits) + 1]

\* One iteration of `for driver in self.drivers` in quit_all: driver.quit()
\* returns.
QuitDriver ==
    /\ mainpc = "quit"
    /\ Len(quits) < Len(drivers)
    /\ quits' = Append(quits, [d |-> NextQuit, ok |-> TRUE])
    /\ UNCHANGED <<Config, Pool, processed_urls, stats, task, sec, mainpc, report,
                   mainerr, stray>>

\* Mutation of QuitDriverFails: no try/except around driver.quit(), the
\* exception leaves quit_all and main.
QuitDriverFailsAborts ==
    /\ mainpc = "quit"
    /\ Len(quits) < Len(drivers)
    /\ quits' = Append(quits, [d |-> NextQuit, ok |-> FALSE])
    /\ mainpc' = "exit"
    /\ UNCHANGED <<Config, Pool, processed_urls, stats, task, sec, report, mainerr, stray>>

\* One iteration of the loop of quit_all: driver.quit() raises, `except: pass`.
QuitDriverFails ==
    /\ mainpc = "quit"
    /\ Len(quits) < Len(drivers)
    /\ quits' = Append(quits, [d |-> NextQuit, ok |-> FALSE])
    /\ UNCHANGED <<Config, Pool, processed_urls, stats, task, sec, mainpc, report,
                   mainerr, stray>>

\* The loop of quit_all is over: self.drivers = []; self.in_use = {}
QuitAll ==
    /\ mainpc = "quit"
    /\ Len(quits) = Len(drivers)
    /\ drivers' = <<>>
    /\ in_use' = <<>>
    /\ loaded' = <<>>
    /\ mainpc' = "exit"
    /\ UNCHANGED <<Config, processed_urls, stats, task, sec, report, mainerr, quits, stray>>

Next ==
    \/ \E t \in TaskIds : Dispatch(t)
    \/ \E t \in TaskIds : CheckSeen(t)
    \/ \E t \in TaskIds : AddSeen(t)
    \/ \E t \in TaskIds : ScanDrivers(t)
    \/ \E t \in TaskIds : CheckRoom(t)
    \/ \E t \in TaskIds : CreateDriver(t)
    \/ \E t \in TaskIds : CreateFails(t)
    \/ \E t \in TaskIds : MarkInUse(t)
    \/ \E t \in TaskIds : Navigate(t)
    \/ \E t \in TaskIds : AttemptFails(t)
    \/ \E t \in TaskIds : ReadSource(t)
    \/ \E t \in TaskIds : ReadSourceFails(t)
    \/ \E t \in TaskIds : CheckMember(t)
    \/ \E t \in TaskIds : LoadCount(t)
    \/ \E t \in TaskIds : StoreCount(t)
    \/ \E t \in TaskIds : AppendArticle(t)
    \/ \E t \in TaskIds : Finally(t)
    \/ SectionReturns
    \/ SectionRaises
    \/ Report
    \/ ReportFails
    \/ QuitDriver
    \/ QuitDriverFails
    \/ QuitAll

Spec ==
    Init /\ [][Next]_vars

\* Every position a batch of the model can have, whatever the plan.
AllTaskIds ==
    (1..(NumStates + 1)) \X (1..MainPages)

\* A step of the worker thread that runs call t.
Worker(t) ==
    t \in TaskIds /\ (Dispatch(t) \/ scrape_page(t))

\* The main thread.
MainThread ==
    \/ SectionReturns \/ SectionRaises \/ Report \/ ReportFails
    \/ QuitDriver \/ QuitDriverFails \/ QuitAll

\* The runs of the repeated listing, where a finished batch, an abandoned
\* call, a skipped call and, in the pool of one, a waiting call all occur.
FairInit ==
    Init /\ plan = RepeatPlan

\* Threads are scheduled fairly, and every call into the render engine
\* returns or raises: no thread that can take a step waits forever.
FairSpec ==
    /\ FairInit
    /\ [][Next]_vars
    /\ \A t \in AllTaskIds : WF_vars(Worker(t))
    /\ WF_vars(MainThread)

\* A handle the pool creates and quit_all removes, and one it never creates.
RemovedHandle == 1

ForeignHandle == max_workers + 1

StrayHandles ==
    {RemovedHandle, ForeignHandle}

\* How many release_driver calls the other caller makes.
MaxStray == 2

\* release_driver(driver) called, by a caller other than scrape_page, with a
\* handle that is not in self.drivers: one the pool never created, or the
\* first one it created, after quit_all has emptied the list.
StrayRelease(driver) ==
    /\ Len(stray) < MaxStray
    /\ driver \notin Range(drivers)
    /\ \/ driver = ForeignHandle
       \/ driver = RemovedHandle /\ mainpc = "exit" /\ \E t \in TaskIds : task[t].got
    /\ in_use' = release_driver(driver)
    /\ stray' = Append(stray, driver)
    /\ UNCHANGED <<Config, drivers, loaded, processed_urls, stats, task, sec, mainpc,
                   report, mainerr, quits>>

ReleaseNext ==
    \/ Next
    \/ \E driver \in StrayHandles : StrayRelease(driver)

\* The script with a second client of the pool, which calls release_driver
\* with handles the pool does not own.
ReleaseSpec ==
    FairInit /\ [][ReleaseNext]_vars

(***************************************************************************)
(* Properties                                                              *)
(***************************************************************************)
Occurrences(seq, x) ==
    Cardinality({k \in DOMAIN seq : seq[k] = x})

\* The call has a handle returned by get_driver and has not released it yet.
Holds(t) ==
    task[t].got /\ task[t].pc # "done"

\* No scrape_page call is between its first and its last step.
Quiescent ==
    \A t \in TaskIds : task[t].pc \in {"queued", "done"}

\* C1: for every category, in every reachable state (the states between two
\* steps of one worker's update included), stats[C].count equals the number
\* of entries of stats[C].articles.
C1_CountEqualsSize ==
    \A x \in Categories : stats[x].count = Len(stats[x].articles)

\* C2: a handle is never held by two callers at the same time: between a
\* get_driver that returned h and the matching release_driver(h) no other
\* get_driver returns h.
C2_ExclusiveHandle ==
    \A t, u \in TaskIds :
        (t # u /\ Holds(t) /\ Holds(u)) => task[t].d # task[u].d

\* C3: the number of handles created and not yet torn down never exceeds the
\* capacity of the pool.
C3_PoolBound ==
    Len(drivers) <= max_drivers

\* The call has finished with success after parsing the page of its own URL.
Scraped(t) ==
    /\ task[t].pc = "done"
    /\ task[t].outcome = "success"
    /\ task[t].src = url(t)

\* C4: when two distinct listing pages, processed by different workers, each
\* hold a container whose destination matches category C, then once both
\* calls have finished the destination occurs exactly once in
\* stats[C].articles and the count was incremented once for it.
C4_DedupAcrossPages ==
    \A t, u \in TaskIds :
        (url(t) # url(u) /\ Scraped(t) /\ Scraped(u))
        => \A a \in Range(site[url(t)]), b \in Range(site[url(u)]) :
              (~Malformed(a) /\ ~Malformed(b) /\ article_link(a) = article_link(b))
              => \A x \in Range(MatchTable[a]) \cap Range(MatchTable[b]) :
                    /\ Occurrences(stats[x].articles, article_link(a)) = 1
                    /\ stats[x].count = Cardinality(Range(stats[x].articles))

\* C5: a record is recorded under category C if and only if its destination
\* or its title contains a trigger term of C: once a call has gone through
\* the containers of a page, each destination is in exactly the article
\* lists of the categories matched by the destination or by the title.
C5_RecordedIffEitherMatches ==
    \A t \in TaskIds :
        (task[t].pc = "finally" /\ task[t].outcome = "success")
        => \A a \in Range(page_source(task[t].src)) :
              ~Malformed(a)
              => \A x \in Categories :
                    (article_link(a) \in Range(stats[x].articles))
                    <=> (x \in Range(contains_keywords(article_link(a), keywords))
                                \cup Range(contains_keywords(a.title, keywords)))

\* C6: every session acquired by scrape_page is released on every exit path:
\* whenever every page task has terminated, no handle is flagged in use.
C6_ReleasedOnEveryExit ==
    Quiescent => \A d \in DOMAIN in_use : ~in_use[d]

\* Calls have ended by success, by three failed attempts and by an error
\* while reading the page, and the pool still has its handles.
C6_Witness ==
    /\ Quiescent
    /\ mainpc = "scraping"
    /\ DOMAIN in_use # {}
    /\ \E t \in TaskIds : task[t].outcome = "success" /\ task[t].got
    /\ \E t \in TaskIds : task[t].err = "fetch" /\ task[t].got
    /\ \E t \in TaskIds : task[t].err = "source" /\ task[t].got

\* C7: a URL is attempted at most 3 times; the first successful attempt ends
\* the retrying and extraction follows; failing on attempts 0 and 1 and
\* succeeding on attempt 2 ends in success; failing on all 3 attempts ends
\* as abandoned without extraction, and the other calls of the batch can
\* still take their steps.
C7_RetryPolicy ==
    \A t \in TaskIds :
        /\ task[t].tries <= max_retries
        /\ task[t].attempt < max_retries
        /\ task[t].pc = "get" => task[t].tries = task[t].attempt
        /\ task[t].pc \in {"source", "member", "load", "store", "append"}
              => task[t].tries = task[t].attempt + 1
        /\ (task[t].pc = "finally" /\ task[t].err = "none")
              => /\ task[t].outcome = "success"
                 /\ task[t].tries = task[t].attempt + 1
        /\ (task[t].pc = "finally" /\ task[t].err = "fetch")
              => task[t].tries = max_retries
        /\ task[t].err = "fetch"
              => task[t].outcome = "abandoned" /\ task[t].src = NoPage
        /\ (task[t].err = "fetch" /\ task[t].pc = "done")
              => \/ \A u \in TaskIds : u[1] = t[1] => task[u].pc = "done"
                 \/ ENABLED (\E u \in TaskIds : u[1] = t[1] /\ (Dispatch(u) \/ scrape_page(u)))

\* One call was abandoned after three failed attempts, and a call of a later
\* batch has just finished extraction after failing on attempts 0 and 1.
C7_Witness ==
    /\ \E t \in TaskIds : task[t].pc = "done" /\ task[t].err = "fetch"
    /\ \E t \in TaskIds :
          /\ task[t].pc = "finally"
          /\ task[t].attempt = 2
          /\ task[t].tries = 3
          /\ task[t].outcome = "success"

C9_SectionsSequential ==
    /\ \A t \in TaskIds : t[1] < sec => task[t].pc = "done"
    /\ \A t, u \in TaskIds :
          (u[1] < t[1] /\ task[t].pc # "queued") => task[u].pc = "done"

\* A call of the second section is running.
C9_Witness ==
    /\ sec = 2
    /\ \E t \in TaskIds : t[1] = 2 /\ task[t].pc \notin {"queued", "done"}

\* C10: each distinct page URL is fetched at most once per run: of all the
\* scrape_page calls for one URL, concurrent ones included, at most one
\* acquires a session.
C10_OneAcquisitionPerURL ==
    \A t, u \in TaskIds :
        (t # u /\ url(t) = url(u)) => ~(task[t].got /\ task[u].got)

\* The call is a call of the plan and a worker has taken it.
Started(t) ==
    t \in TaskIds /\ task[t].pc # "queued"

\* The call, if it is one of the plan, has returned.
Ended(t) ==
    t \in TaskIds => task[t].pc = "done"

\* C11: with fair scheduling and render-engine calls that return or raise,
\* every dispatched page task reaches a terminal outcome, the calls that had
\* to wait in get_driver included, and the whole run finishes.
C11_EveryTaskEnds ==
    /\ \A t \in AllTaskIds : Started(t) ~> Ended(t)
    /\ <>(mainpc = "exit")

\* A call that found the pool exhausted and waited for a handle is ending.
C11_Witness ==
    \E t \in TaskIds : task[t].full /\ task[t].got /\ task[t].pc = "finally"

\* C12: recording the same article record twice in sequence leaves every
\* count and every article list as recording it once: the append puts the
\* destination in the list of its category, no list ever loses an entry, and
\* a recording that finds its destination in the list changes no count and no
\* list and does not go on to the increment.
C12_RecordingIdempotent ==
    [][\A t \in TaskIds :
          /\ \A x \in Categories :
                Range(stats[x].articles) \subseteq Range(stats'[x].articles)
          /\ (task[t].pc = "append" /\ task'[t] # task[t])
                => link(task[t]) \in Range(stats'[disaster(task[t])].articles)
          /\ (/\ task[t].pc = "member"
              /\ link(task[t]) \in Range(stats[disaster(task[t])].articles)
              /\ task'[t] # task[t])
                => /\ stats' = stats
                   /\ task'[t].pc # "load"
                   /\ task'[t] = Advance(task[t])]_vars

\* Two calls have gone through pages that hold the same destination under
\* the same category, and it was recorded once.
C12_Witness ==
    \E t, u \in TaskIds :
        /\ t # u /\ Scraped(t) /\ Scraped(u)
        /\ \E a \in Range(site[url(t)]), b \in Range(site[url(u)]) :
              /\ ~Malformed(a) /\ ~Malformed(b)
              /\ article_link(a) = article_link(b)
              /\ \E x \in Range(MatchTable[a]) \cap Range(MatchTable[b]) :
                    /\ stats[x].articles = <<article_link(a)>>
                    /\ stats[x].count = 1

\* The records of the pages of the plan: the containers with a destination.
Records ==
    {a \in UNION {Range(site[u]) : u \in UNION {Range(plan[b]) : b \in DOMAIN plan}} :
        ~Malformed(a)}

\* The categories a record matches, by its destination or by its title.
Matching(a) ==
    Range(contains_keywords(Lower(article_link(a)), keywords))
        \cup Range(contains_keywords(Lower(a.title), keywords))

\* The records have pairwise distinct destinations and each matches exactly
\* one category.
DistinctSingleCategory ==
    /\ \A a, b \in Records : article_link(a) = article_link(b) => a = b
    /\ \A a \in Records : Cardinality(Matching(a)) = 1

\* C13: when every page is fetched with success and the records have
\* pairwise distinct destinations, each matching exactly one category, then
\* once all batches are over every article list holds exactly the matching
\* destinations, every count is the length of its list, and the report's
\* total and unique counts are both the number of matching records.
C13_FinalReport ==
    (/\ mainpc \in {"quit", "exit"}
     /\ DistinctSingleCategory
     /\ \A t \in TaskIds : Scraped(t))
    => /\ \A x \in Categories :
             /\ Range(stats[x].articles)
                   = {article_link(a) : a \in {b \in Records : x \in Matching(b)}}
             /\ stats[x].count = Len(stats[x].articles)
       /\ report.total = Cardinality(Records)
       /\ report.unique = report.total

\* C14: a call that ends skipped or abandoned changes no count and no article
\* list: only a call inside the loop over the containers of a page it has
\* read changes stats, and a call that is skipped or has caught an error
\* (the third failed attempt included) has read no page and goes from the
\* error to its finally clause and its end.
C14_NoEffectWhenSkippedOrAbandoned ==
    [][/\ stats' # stats
             => \E t \in TaskIds :
                   /\ task[t].pc \in {"store", "append"}
                   /\ task'[t] # task[t]
                   /\ task[t].src # NoPage
                   /\ task[t].err = "none"
       /\ \A t \in TaskIds :
             /\ task[t].src # NoPage => task'[t].src = task[t].src
             /\ task[t].err # "none" => task'[t].err = task[t].err
             /\ task'[t].err # "none" => task'[t].outcome = "abandoned"
             /\ task'[t].outcome \in {"skipped", "abandoned"}
                   => /\ task'[t].src = NoPage
                      /\ task'[t].pc \in {"finally", "done"}]_vars

\* One call was abandoned after its third failed attempt, one was skipped,
\* and a third has recorded an article.
C14_Witness ==
    /\ \E t \in TaskIds : task[t].pc = "done" /\ task[t].err = "fetch"
    /\ \E t \in TaskIds : task[t].pc = "done" /\ task[t].outcome = "skipped"
    /\ \E x \in Categories : stats[x].count > 0

\* C15: when the creation of a session fails inside get_driver, the call
\* catches the failure and ends abandoned, with no handle of its own; neither
\* the failure nor the rest of the call adds a handle, changes an in-use flag
\* or releases anything, the records of the other calls are left as they are
\* and, while other calls of the batch are unfinished, one of them can take a
\* step.
C15_CreationFailureContained ==
    [][\A t \in TaskIds :
          /\ task'[t].err = "create"
                => /\ task'[t].outcome = "abandoned"
                   /\ task'[t].d = NoDriver
                   /\ ~task'[t].got
                   /\ task'[t].pc \in {"finally", "done"}
          /\ (task'[t].err = "create" /\ task'[t] # task[t])
                => /\ drivers' = drivers
                   /\ in_use' = in_use
                   /\ \A u \in TaskIds \ {t} : task'[u] = task[u]
                   /\ \/ \A u \in TaskIds \ {t} : u[1] = t[1] => task[u].pc = "done"
                      \/ ENABLED (\E u \in TaskIds :
                                     /\ u[1] = t[1]
                                     /\ u # t
                                     /\ Dispatch(u) \/ scrape_page(u))]_vars

\* A call has ended after a failed session creation while another call has
\* obtained a handle and ended with success.
C15_Witness ==
    /\ \E t \in TaskIds : task[t].pc = "done" /\ task[t].err = "create"
    /\ \E t \in TaskIds : task[t].pc = "done" /\ task[t].outcome = "success" /\ task[t].got

\* C16: after a failed attempt with index a the worker sleeps 2^a seconds
\* and then navigates again, if attempts remain: 1 s after attempt 0, 2 s
\* after attempt 1; it does not sleep after the third failure, and after a
\* successful attempt it neither sleeps nor navigates again.
C16_BackoffSchedule ==
    [][\A t \in TaskIds :
          /\ (task[t].pc = "get" /\ task'[t].pc = "get" /\ task'[t] # task[t])
                => /\ task[t].attempt < max_retries - 1
                   /\ task'[t].attempt = task[t].attempt + 1
                   /\ task'[t].wait_time = 2 ^ task[t].attempt
                   /\ task'[t].slept = task[t].slept + task'[t].wait_time
                   /\ task'[t].slept = (IF task[t].attempt = 0 THEN 1 ELSE 3)
          /\ (task[t].pc = "get" /\ task'[t].pc = "finally")
                => /\ task[t].attempt = max_retries - 1
                   /\ task'[t].slept = task[t].slept
                   /\ task'[t].wait_time = task[t].wait_time
                   /\ task'[t].slept = 3
          /\ (task[t].pc = "get" /\ task'[t].pc = "source")
                => /\ task'[t].slept = task[t].slept
                   /\ task'[t].wait_time = task[t].wait_time
                   /\ task'[t].attempt = task[t].attempt
          /\ (task[t].pc \in {"source", "member", "load", "store", "append"})
                => /\ task'[t].pc # "get"
                   /\ task'[t].slept = task[t].slept
                   /\ task'[t].tries = task[t].tries
                   /\ task'[t].attempt = task[t].attempt
          /\ task[t].pc = "finally" => task'[t].pc \in {"finally", "done"}]_vars

\* A call has slept 1 s and 2 s and failed for the third time, and another
\* call has succeeded at its third attempt after the same sleeps.
C16_Witness ==
    /\ \E t \in TaskIds :
          /\ task[t].pc = "finally" /\ task[t].err = "fetch"
          /\ task[t].slept = 3 /\ task[t].wait_time = 2
    /\ \E t \in TaskIds :
          /\ task[t].pc = "source" /\ task[t].attempt = 2
          /\ task[t].slept = 3 /\ task[t].wait_time = 2

\* C17: release_driver on a handle the pool does not own, because the pool
\* never created it or because quit_all removed it, changes neither the list
\* of handles nor any in-use flag.
C17_StrayReleaseNoOp ==
    [][stray' # stray => (drivers' = drivers /\ in_use' = in_use)]_vars

\* release_driver has been called with a foreign handle and, after quit_all,
\* with the first handle of the pool.
C17_Witness ==
    /\ stray = <<ForeignHandle, RemovedHandle>>
    /\ mainpc = "exit"

\* C18: quit_all calls quit() on every handle of the pool, in order, also
\* after calls that failed, and then leaves the pool without handles and
\* without in-use flags; main ends only through quit_all, which it runs when
\* the sections and the report went through, when scraping raised and when
\* writing the report raised, and which can always go on to its end.
C18_QuitAllBestEffort ==
    [][/\ (mainpc = "quit" /\ mainpc' = "exit")
             => /\ [k \in DOMAIN quits |-> quits[k].d] = drivers
                /\ drivers' = <<>>
                /\ in_use' = <<>>
       /\ mainpc' = "exit" => mainpc \in {"quit", "exit"}
       /\ mainerr' # mainerr => mainpc' = "quit"
       /\ mainpc = "quit"
             => /\ ENABLED (QuitDriver \/ QuitAll)
                /\ Len(quits) < Len(drivers) => ENABLED QuitDriverFails]_vars

\* main has ended after writing the report raised; quit_all went through a
\* pool of two handles or more, and quit() failed on the first of them.
C18_Witness ==
    /\ mainpc = "exit"
    /\ mainerr = "report"
    /\ Len(quits) >= 2
    /\ ~quits[1].ok
    /\ quits[2].ok
    /\ drivers = <<>>
    /\ in_use = <<>>

\* C19: once every worker of every batch has finished, at the point where
\* main computes and writes the report, stats[C].count equals the length of
\* stats[C].articles for every category, whatever the interleaving of the
\* workers was.
C19_CountEqualsSizeAtReport ==
    (mainpc = "report" /\ Quiescent)
    => \A x \in Categories : stats[x].count = Len(stats[x].articles)

\* C20: processed_urls only grows; the URL of a call that has gone past
\* processed_urls.add is in it whatever the call's outcome; a call that finds
\* its URL there returns skipped without a handle; and a call that has not
\* begun when a call for the same URL has ended abandoned never fetches it.
C20_SeenForGood ==
    [][/\ processed_urls \subseteq processed_urls'
       /\ \A t \in TaskIds :
             /\ task'[t].pc \notin {"queued", "check", "add"}
                   => url(t) \in processed_urls'
             /\ (/\ task[t].pc = "check"
                 /\ url(t) \in processed_urls
                 /\ task'[t] # task[t])
                   => /\ task'[t].pc = "done"
                      /\ task'[t].outcome = "skipped"
                      /\ ~task'[t].got
             /\ (/\ task[t].pc \in {"queued", "check"}
                 /\ \E u \in TaskIds :
                       /\ url(u) = url(t)
                       /\ task[u].pc = "done"
                       /\ task[u].outcome = "abandoned")
                   => task'[t].pc \in {"queued", "check", "done"}]_vars

\* A call has ended abandoned and a call of a later batch for the same URL
\* has been skipped.
C20_Witness ==
    \E t, u \in TaskIds :
        /\ t[1] < u[1]
        /\ url(t) = url(u)
        /\ task[t].pc = "done" /\ task[t].outcome = "abandoned"
        /\ task[u].pc = "done" /\ task[u].outcome = "skipped"

=============================================================================
